---- MODULE Spec2Model ----
(***************************************************************************)
(* A model of the ARGO ingestion pipeline of floatchat-proto:              *)
(*   src/src/data_pipeline/netcdf_processor.py  (ArgoNetCDFProcessor)      *)
(*   src/src/data_pipeline/data_ingestion.py    (DataIngestionPipeline)    *)
(*   src/src/data_pipeline/vector_db.py         (ArgoVectorDatabase)       *)
(*   src/src/ai/rag_system.py                   (ArgoRAGSystem)            *)
(*                                                                         *)
(* The specifications of this module share its variables:                  *)
(*   SpecRegion   the region classifier applied to one (lat, lon) pair     *)
(*   SpecProfile  process_argo_file applied to one file, step by step      *)
(*   SpecMld      the two ways to a mixed-layer depth                      *)
(*   Spec         ingest_directory over a directory, plus the maintenance  *)
(*                operations of the pipeline                               *)
(*   SpecRag      ArgoRAGSystem.process_query on one question              *)
(***************************************************************************)
EXTENDS Integers, Sequences, FiniteSets, TLC

VARIABLES
    c_lat, c_lon, c_region, c_pc,        \* SpecRegion
    ds, profile_data, p_pc,              \* SpecProfile
    netcdf_files, file_idx, pc,          \* Spec: ingest_directory
    cur, vector_success, sql_success,    \*       ingest_single_file locals
    result,                              \*       and its return value
    processed_count, error_count, processed_files, summary,
    collection, argo_profiles,           \*       the two stores
    open_sessions,                       \*       sessions opened and not closed
    log,                                 \*       what was attempted on each file
    last_removed, cleanup_calls,         \*       cleanup_duplicates
    stats, stats_calls,                  \*       get_ingestion_stats
    user_question, sql_query, q_pc,      \* SpecRag: process_query
    executed, answer                     \*       queries run, value returned

vars == << c_lat, c_lon, c_region, c_pc, ds, profile_data, p_pc,
           netcdf_files, file_idx, pc, cur, vector_success, sql_success,
           result, processed_count, error_count, processed_files, summary,
           collection, argo_profiles, open_sessions, log,
           last_removed, cleanup_calls, stats, stats_calls,
           user_question, sql_query, q_pc, executed, answer >>

(***************************************************************************)
(* Values.  A Python value is a record [t, v]: t is the kind, v the        *)
(* payload.  NaN is the float not-a-number and None the absence marker.   *)
(* A coordinate is a rational <<numerator, denominator>> (denominator > 0) *)
(* so that the thresholds of the classifier, all whole degrees, are        *)
(* compared exactly.  Temperatures are in tenths of a degree Celsius,      *)
(* pressures in tenths of a decibar, salinities in tenths of a PSU.        *)
(***************************************************************************)
NaN == [t |-> "nan", v |-> 0]
None == [t |-> "none", v |-> 0]
Num(n) == [t |-> "num", v |-> n]
Rat(n, d) == [t |-> "rat", v |-> <<n, d>>]
Str(s) == [t |-> "str", v |-> s]
List(s) == [t |-> "list", v |-> s]

\* Python float comparisons against a whole number k: every comparison with
\* NaN is False.
GE(x, k) == x.t = "rat" /\ x.v[1] >= k * x.v[2]
LE(x, k) == x.t = "rat" /\ x.v[1] <= k * x.v[2]
LT(x, k) == x.t = "rat" /\ x.v[1] < k * x.v[2]
GT(x, k) == x.t = "rat" /\ x.v[1] > k * x.v[2]

\* lon += 360 (NaN + 360 is NaN)
Plus360(x) == IF x.t = "rat" THEN Rat(x.v[1] + 360 * x.v[2], x.v[2]) ELSE x

(***************************************************************************)
(* ArgoNetCDFProcessor._determine_ocean_region                             *)
(***************************************************************************)
NormalizeLon(lon) == IF LT(lon, 0) THEN Plus360(lon) ELSE lon

\* mutant: the Indian Ocean rule tested after the Pacific rule
RegionOf_PacificFirst(lat, lon) ==
    IF (GE(lon, 120) /\ LE(lon, 290)) \/ (GE(lon, 290) /\ LE(lon, 360))
         \/ (GE(lon, 0) /\ LE(lon, 70))
    THEN "Pacific Ocean"
    ELSE IF GE(lat, -60) /\ LE(lat, 30) /\ GE(lon, 20) /\ LE(lon, 120)
    THEN "Indian Ocean"
    ELSE IF LT(lat, -60) THEN "Southern Ocean"
    ELSE IF GT(lat, 66) THEN "Arctic Ocean"
    ELSE "Unknown"

\* mutant: the final else is missing, so the function falls off its end
RegionOf_NoElse(lat, lon) ==
    IF GE(lat, -60) /\ LE(lat, 30) /\ GE(lon, 20) /\ LE(lon, 120)
    THEN "Indian Ocean"
    ELSE IF (GE(lon, 120) /\ LE(lon, 290)) \/ (GE(lon, 290) /\ LE(lon, 360))
              \/ (GE(lon, 0) /\ LE(lon, 70))
    THEN "Pacific Ocean"
    ELSE IF GE(lon, 290) \/ LE(lon, 20)
    THEN "Atlantic Ocean"
    ELSE IF LT(lat, -60)
    THEN "Southern Ocean"
    ELSE IF GT(lat, 66)
    THEN "Arctic Ocean"
    ELSE "None"

\* mutant: the Atlantic rule tested before the Pacific rule
RegionOf_AtlanticFirst(lat, lon) ==
    IF GE(lat, -60) /\ LE(lat, 30) /\ GE(lon, 20) /\ LE(lon, 120)
    THEN "Indian Ocean"
    ELSE IF GE(lon, 290) \/ LE(lon, 20)
    THEN "Atlantic Ocean"
    ELSE IF (GE(lon, 120) /\ LE(lon, 290)) \/ (GE(lon, 290) /\ LE(lon, 360))
              \/ (GE(lon, 0) /\ LE(lon, 70))
    THEN "Pacific Ocean"
    ELSE IF LT(lat, -60)
    THEN "Southern Ocean"
    ELSE IF GT(lat, 66)
    THEN "Arctic Ocean"
    ELSE "Unknown"

\* the if/elif cascade, on the normalized longitude
RegionOf(lat, lon) ==
    IF GE(lat, -60) /\ LE(lat, 30) /\ GE(lon, 20) /\ LE(lon, 120)
    THEN "Indian Ocean"
    ELSE IF (GE(lon, 120) /\ LE(lon, 290)) \/ (GE(lon, 290) /\ LE(lon, 360))
              \/ (GE(lon, 0) /\ LE(lon, 70))
    THEN "Pacific Ocean"
    ELSE IF GE(lon, 290) \/ LE(lon, 20)
    THEN "Atlantic Ocean"
    ELSE IF LT(lat, -60)
    THEN "Southern Ocean"
    ELSE IF GT(lat, 66)
    THEN "Arctic Ocean"
    ELSE "Unknown"

determine_ocean_region(lat, lon) == RegionOf(lat, NormalizeLon(lon))

(***************************************************************************)
(* Dictionaries.  A Python dict is a function from its keys (strings).     *)
(***************************************************************************)
Has(d, k) == k \in DOMAIN d
\* d.update(e)
Update(d, e) ==
    [k \in (DOMAIN d) \cup (DOMAIN e) |-> IF k \in DOMAIN e THEN e[k] ELSE d[k]]

\* mutant: the mask is not applied, every level is kept
Compress_All(a, mask) == a

RECURSIVE Compress(_, _)
\* a[mask]: the elements of a at the positions where mask is True
Compress(a, mask) ==
    IF a = << >> THEN << >>
    ELSE (IF Head(mask) THEN << Head(a) >> ELSE << >>)
             \o Compress(Tail(a), Tail(mask))

\* mutant: the first element is taken for the greatest
SeqMax_First(a) == a[1].v

RECURSIVE SeqMax(_)
\* np.max of a non-empty sequence of numbers
SeqMax(a) ==
    IF Len(a) = 1 THEN a[1].v
    ELSE LET m == SeqMax(Tail(a)) IN IF a[1].v >= m THEN a[1].v ELSE m

Abs(n) == IF n < 0 THEN -n ELSE n

(***************************************************************************)
(* ArgoNetCDFProcessor.process_argo_file, lines 28-42: the extraction.     *)
(* A dataset ds is a function from the names of the variables the file     *)
(* holds to their first-profile values.  Reading ds.X for an absent X      *)
(* raises, which process_argo_file turns into the result None.             *)
(***************************************************************************)
RequiredVars == {"LATITUDE", "LONGITUDE", "PRES", "TEMP", "PSAL"}

\* mutant: a file without PLATFORM_NUMBER gets an empty identifier
extract_platform_number_Empty(d) ==
    IF Has(d, "PLATFORM_NUMBER") THEN Str(d["PLATFORM_NUMBER"].v)
    ELSE Str("")

\* _extract_platform_number
extract_platform_number(d) ==
    IF Has(d, "PLATFORM_NUMBER") THEN Str(d["PLATFORM_NUMBER"].v)
    ELSE Str("UNKNOWN")

\* _extract_date(ds): 1950-01-01 plus JULD days; a timestamp is the number of
\* days after 1950-01-01.  Without JULD the result is the wall clock, now.
\* (The files of the model hold a numeric day count or none.)
extract_date(d, now) ==
    IF Has(d, "JULD") THEN [t |-> "ts", v |-> d["JULD"].v]
    ELSE [t |-> "ts", v |-> now]

\* does building the dict of lines 31-42 raise?  (a required variable is
\* absent, or int() is applied to a NaN cycle number)
ExtractRaises(d) ==
    \/ ~(RequiredVars \subseteq DOMAIN d)
    \/ (Has(d, "CYCLE_NUMBER") /\ d["CYCLE_NUMBER"].t # "num")

\* the dict of lines 31-42
RawProfile(d, now) ==
    [k \in {"platform_number", "cycle_number", "latitude", "longitude",
            "measurement_date", "pressure_levels", "temperature", "salinity",
            "temp_qc", "psal_qc"} |->
        CASE k = "platform_number" -> extract_platform_number(d)
          [] k = "cycle_number" ->
                IF Has(d, "CYCLE_NUMBER") THEN d["CYCLE_NUMBER"] ELSE Num(0)
          [] k = "latitude" -> d["LATITUDE"]
          [] k = "longitude" -> d["LONGITUDE"]
          [] k = "measurement_date" -> extract_date(d, now)
          [] k = "pressure_levels" -> d["PRES"]
          [] k = "temperature" -> d["TEMP"]
          [] k = "salinity" -> d["PSAL"]
          [] k = "temp_qc" -> IF Has(d, "TEMP_QC") THEN d["TEMP_QC"] ELSE List(<< >>)
          [] k = "psal_qc" -> IF Has(d, "PSAL_QC") THEN d["PSAL_QC"] ELSE List(<< >>)]

(***************************************************************************)
(* ArgoNetCDFProcessor._calculate_mld                                      *)
(***************************************************************************)
\* the threshold 0.2 degrees Celsius, in tenths of a degree
MldThreshold == 2

\* mutant: a difference equal to the threshold triggers too
MldHits_AtLeast(temperature) ==
    {i \in 1..Len(temperature) :
        Abs(temperature[i].v - temperature[1].v) >= MldThreshold}

\* the positions i at which abs(temp - surface_temp) > threshold
MldHits(temperature) ==
    {i \in 1..Len(temperature) :
        Abs(temperature[i].v - temperature[1].v) > MldThreshold}

\* mutant: the length check of lines 121-122 is missing
calculate_mld_NoShortCheck(temperature, pressure) ==
    IF Len(temperature) >= 1 /\ MldHits(temperature) # {}
    THEN pressure[CHOOSE i \in MldHits(temperature) :
                     \A j \in MldHits(temperature) : i <= j].v
    ELSE IF Len(pressure) > 0 THEN pressure[Len(pressure)].v ELSE 0

calculate_mld(temperature, pressure) ==
    IF Len(temperature) < 2 THEN 0
    ELSE IF MldHits(temperature) # {}
    THEN pressure[CHOOSE i \in MldHits(temperature) :
                     \A j \in MldHits(temperature) : i <= j].v
    ELSE IF Len(pressure) > 0 THEN pressure[Len(pressure)].v ELSE 0

(***************************************************************************)
(* ArgoNetCDFProcessor._calculate_derived_parameters                       *)
(***************************************************************************)
\* mutant: the fallback is taken below 2 valid samples instead of 3
MinValid_Two == 1 + 1

\* the least number of jointly valid samples the calculator works on
MinValid == 3

IsNaN(x) == x.t = "nan"

\* mutant: the mask looks at the temperature only
ValidMask_TempOnly(temp, sal, pres) == [i \in 1..Len(temp) |-> ~IsNaN(temp[i])]

\* valid_mask = ~(isnan(temp) | isnan(sal) | isnan(pres))
ValidMask(temp, sal, pres) ==
    [i \in 1..Len(temp) |-> ~(IsNaN(temp[i]) \/ IsNaN(sal[i]) \/ IsNaN(pres[i]))]

\* np.sum(valid_mask)
MaskSum(mask) == Cardinality({i \in 1..Len(mask) : mask[i]})

\* The seawater library (gsw), a black box: each output element is a value
\* determined by the inputs at that position, and NaN when a coordinate is NaN.
gsw(name, args, lon, lat) ==
    IF IsNaN(lon) \/ IsNaN(lat) THEN NaN ELSE [t |-> "gsw", v |-> <<name>> \o args]

gsw_SA_from_SP(sal, pres, lon, lat) ==
    [i \in 1..Len(sal) |-> gsw("SA", <<sal[i].v, pres[i].v>>, lon, lat)]
gsw_CT_from_t(sal, temp, pres, lon, lat) ==
    [i \in 1..Len(sal) |-> gsw("CT", <<sal[i].v, temp[i].v, pres[i].v>>, lon, lat)]
gsw_sigma0(sal, temp, pres, lon, lat) ==
    [i \in 1..Len(sal) |-> gsw("sigma0", <<sal[i].v, temp[i].v, pres[i].v>>, lon, lat)]

Fallback == [k \in {"max_depth", "mixed_layer_depth"} |-> Num(0)]

\* does the try block of lines 80-112 raise?  np.isnan (line 87) raises
\* TypeError on an array that is not numeric: a variable of the file stored
\* with a character type
CalculatorRaises(pd) ==
    \E k \in {"temperature", "salinity", "pressure_levels"} :
        \E i \in 1..Len(pd[k].v) : pd[k].v[i].t \notin {"num", "nan"}

\* mutant: the calculator has no except clause, what it raises reaches
\* process_argo_file
DerivePropagates_Uncaught(pd) == CalculatorRaises(pd)

\* does an exception leave _calculate_derived_parameters?  Never: lines
\* 114-116 catch every Exception
DerivePropagates(pd) == FALSE

calculate_derived_parameters(pd) ==
    LET temp == pd["temperature"].v
        sal == pd["salinity"].v
        pres == pd["pressure_levels"].v
        lat == pd["latitude"]
        lon == pd["longitude"]
        valid_mask == ValidMask(temp, sal, pres)
        temp_clean == Compress(temp, valid_mask)
        sal_clean == Compress(sal, valid_mask)
        pres_clean == Compress(pres, valid_mask)
    IN  IF CalculatorRaises(pd) THEN Fallback
        ELSE IF MaskSum(valid_mask) < MinValid THEN Fallback
        ELSE [k \in {"absolute_salinity", "conservative_temperature",
                     "potential_density", "mixed_layer_depth", "max_depth"} |->
                CASE k = "absolute_salinity" ->
                        List(gsw_SA_from_SP(sal_clean, pres_clean, lon, lat))
                  [] k = "conservative_temperature" ->
                        List(gsw_CT_from_t(sal_clean, temp_clean, pres_clean, lon, lat))
                  [] k = "potential_density" ->
                        List(gsw_sigma0(sal_clean, temp_clean, pres_clean, lon, lat))
                  [] k = "mixed_layer_depth" ->
                        Num(calculate_mld(temp_clean, pres_clean))
                  [] k = "max_depth" -> Num(SeqMax(pres_clean))]

(***************************************************************************)
(* ArgoNetCDFProcessor._clean_profile_data                                 *)
(***************************************************************************)
\* pd.isna(x): NaN and None
isna(x) == x.t \in {"nan", "none"}

\* mutant: one pass replaces only the first NaN of a list
CleanList_FirstOnly(value) ==
    [i \in 1..Len(value) |->
        IF value[i].t = "nan" /\ \A j \in 1..(i - 1) : value[j].t # "nan"
        THEN None ELSE value[i]]

\* mutant: lists are passed through and only scalars are cleaned
CleanList_Skip(value) == value

\* [None if pd.isna(x) else x for x in value]
CleanList(value) == [i \in 1..Len(value) |-> IF isna(value[i]) THEN None ELSE value[i]]

clean_profile_data(pd) ==
    [key \in DOMAIN pd |->
        IF pd[key].t = "list" THEN List(CleanList(pd[key].v))
        ELSE IF isna(pd[key]) THEN None
        ELSE pd[key]]

(***************************************************************************)
(* Bounds                                                                  *)
(***************************************************************************)
\* grid points per degree of the coordinates the classifier is run on
Res == 2
\* the most vertical levels of an enumerated profile
MaxLen == 3
\* the most files of an enumerated directory
MaxFiles == 3
\* the most calls of cleanup_duplicates in one run
MaxCleanups == 2
\* the most calls of get_ingestion_stats in one run
MaxStats == 1
\* the most words of a generated query
MaxWords == 3

(***************************************************************************)
(* Values the variables of a specification hold while another one runs     *)
(***************************************************************************)
RegionIdle ==
    /\ c_lat = None /\ c_lon = None /\ c_region = "" /\ c_pc = "off"

ProfileIdle ==
    /\ ds = << >> /\ profile_data = << >> /\ p_pc = "off"

IngestIdle ==
    /\ netcdf_files = << >> /\ file_idx = 0 /\ pc = "off"
    /\ cur = None /\ vector_success = FALSE /\ sql_success = FALSE
    /\ result = FALSE
    /\ processed_count = 0 /\ error_count = 0 /\ processed_files = << >>
    /\ summary = None
    /\ collection = << >> /\ argo_profiles = << >>
    /\ open_sessions = 0 /\ log = << >> /\ last_removed = 0
    /\ cleanup_calls = 0
    /\ stats = None /\ stats_calls = 0

RagIdle ==
    /\ user_question = "" /\ sql_query = << >> /\ q_pc = "off"
    /\ executed = << >> /\ answer = None

regionVars == << c_lat, c_lon, c_region, c_pc >>
profileVars == << ds, profile_data, p_pc >>
ingestVars == << netcdf_files, file_idx, pc, cur, vector_success, sql_success,
                 result, processed_count, error_count, processed_files, summary,
                 collection, argo_profiles, open_sessions, log,
                 last_removed, cleanup_calls, stats, stats_calls >>
statsVars == << stats, stats_calls >>
ragVars == << user_question, sql_query, q_pc, executed, answer >>

(***************************************************************************)
(* SpecRegion: one call of _determine_ocean_region(lat, lon), for every    *)
(* latitude in [-90, 90] and longitude in [-180, 180] on a grid of Res     *)
(* points per degree, and the point (2.5, 87.3) of the spec's scenario.    *)
(* All thresholds are whole degrees, so with Res >= 2 every real           *)
(* coordinate compares with every threshold as some grid point does.       *)
(***************************************************************************)
Latitudes == {Rat(n, Res) : n \in (-90 * Res)..(90 * Res)} \cup {Rat(25, 10)}
Longitudes == {Rat(n, Res) : n \in (-180 * Res)..(180 * Res)} \cup {Rat(873, 10)}

InitRegion ==
    /\ c_lat \in Latitudes
    /\ c_lon \in Longitudes
    /\ c_region = ""
    /\ c_pc = "call"
    /\ ProfileIdle /\ IngestIdle /\ RagIdle

ClassifyRegion ==
    /\ c_pc = "call"
    /\ c_region' = determine_ocean_region(c_lat, c_lon)
    /\ c_pc' = "returned"
    /\ UNCHANGED << c_lat, c_lon, profileVars, ingestVars, ragVars >>

NextRegion == ClassifyRegion

SpecRegion == InitRegion /\ [][NextRegion]_vars

(***************************************************************************)
(* Claims about the region classifier                                      *)
(***************************************************************************)
RegionLabels == {"Indian Ocean", "Pacific Ocean", "Atlantic Ocean",
                 "Southern Ocean", "Arctic Ocean", "Unknown"}

\* C6: for every latitude in [-90, 90] and longitude in [-180, 180] the
\* classifier returns a label, the label is one of the six fixed labels,
\* and it is the value of the function at (lat, lon): nothing else decides it.
C6_RegionTotal ==
    c_pc = "returned" =>
        /\ c_region \in RegionLabels
        /\ c_region = determine_ocean_region(c_lat, c_lon)

\* the fall-through case: no rule matches and the label is Unknown
C6_Witness ==
    /\ c_pc = "returned" /\ c_region = "Unknown"
    /\ GT(c_lon, 70) /\ LT(c_lon, 120) /\ GT(c_lat, 30) /\ LE(c_lat, 66)

\* The cascade as the spec words it, on plain rationals n/d.
C7_In(x, lo, hi) == x[1] >= lo * x[2] /\ x[1] <= hi * x[2]
C7_Lon(lon) == IF lon[1] < 0 THEN <<lon[1] + 360 * lon[2], lon[2]>> ELSE lon
C7_Rules(lat, lon) ==
    << <<"Indian Ocean", C7_In(lat, -60, 30) /\ C7_In(lon, 20, 120)>>,
       <<"Pacific Ocean", C7_In(lon, 120, 290) \/ C7_In(lon, 290, 360)
                            \/ C7_In(lon, 0, 70)>>,
       <<"Atlantic Ocean", lon[1] >= 290 * lon[2] \/ lon[1] <= 20 * lon[2]>>,
       <<"Southern Ocean", lat[1] < -60 * lat[2]>>,
       <<"Arctic Ocean", lat[1] > 66 * lat[2]>>,
       <<"Unknown", TRUE>> >>
C7_Reference(lat, lon) ==
    LET rules == C7_Rules(lat, C7_Lon(lon))
        first == CHOOSE i \in 1..Len(rules) :
                    rules[i][2] /\ \A j \in 1..(i - 1) : ~rules[j][2]
    IN  rules[first][1]

\* C7: the classifier equals the reference cascade (add 360 to a negative
\* longitude, then the first matching rule in the order Indian, Pacific,
\* Atlantic, Southern, Arctic, Unknown), and (2.5, 87.3) is Indian Ocean.
C7_RegionCascade ==
    c_pc = "returned" =>
        /\ c_region = C7_Reference(c_lat.v, c_lon.v)
        /\ (c_lat = Rat(25, 10) /\ c_lon = Rat(873, 10)
              => c_region = "Indian Ocean")

\* the scenario's point has been classified
C7_Witness ==
    c_pc = "returned" /\ c_lat = Rat(25, 10) /\ c_lon = Rat(873, 10)

Temps == {NaN, Num(280), Num(283)}
Sals == {NaN, Num(350)}
Press == {NaN, Num(100), Num(200)}

Column(pres, temp, psal) ==
    [PRES |-> List(pres), TEMP |-> List(temp), PSAL |-> List(psal)]

\* pressure=[2.5,10,20,50], temperature=[28.0,27.9,26.0,20.0],
\* salinity=[34.2,34.3,34.8,35.1]
ScenarioColumn ==
    Column(<<Num(25), Num(100), Num(200), Num(500)>>,
           <<Num(280), Num(279), Num(260), Num(200)>>,
           <<Num(342), Num(343), Num(348), Num(351)>>)

\* a file whose TEMP variable is stored with a character type
Bytes(c) == [t |-> "bytes", v |-> c]
MalformedColumn ==
    Column(<<Num(25), Num(100), Num(200), Num(500)>>,
           <<Bytes("2"), Bytes("8"), Bytes("."), Bytes("0")>>,
           <<Num(342), Num(343), Num(348), Num(351)>>)

FixedColumns ==
    {ScenarioColumn,
     Column(<<Num(100), Num(200)>>, <<Num(280), Num(283)>>, <<Num(350), Num(350)>>),
     Column(<<Num(100), NaN, Num(200), Num(100)>>,
            <<Num(280), Num(280), NaN, Num(283)>>,
            <<NaN, Num(350), Num(350), NaN>>),
     Column(<<Num(200), Num(100), NaN, Num(100), Num(100)>>,
            <<Num(280), Num(280), Num(283), Num(282), NaN>>,
            <<Num(350), Num(350), Num(350), Num(350), Num(350)>>),
     Column(<<Num(25), Num(100), Num(200), Num(900), Num(500)>>,
            <<Num(280), Num(282), Num(284), NaN, Num(200)>>,
            <<Num(350), Num(350), Num(350), Num(350), Num(350)>>),
     MalformedColumn}

ScenarioHeader ==
    [PLATFORM_NUMBER |-> [t |-> "raw", v |-> "2900123"],
     CYCLE_NUMBER |-> Num(10),
     LATITUDE |-> Rat(25, 10),
     LONGITUDE |-> Rat(873, 10),
     JULD |-> Num(27000),
     TEMP_QC |-> List(<<Num(1)>>),
     PSAL_QC |-> List(<<Num(1)>>)]

Headers ==
    {[ScenarioHeader EXCEPT !["LATITUDE"] = la, !["LONGITUDE"] = lo,
                            !["CYCLE_NUMBER"] = cy] :
        la \in {Rat(25, 10), Rat(-70, 1), NaN},
        lo \in {Rat(873, 10), Rat(-100, 1), NaN},
        cy \in {Num(10), NaN}}

AllVars == {"PLATFORM_NUMBER", "CYCLE_NUMBER", "LATITUDE", "LONGITUDE", "JULD",
            "TEMP_QC", "PSAL_QC", "PRES", "TEMP", "PSAL"}

\* the file with header h and column c, the variables of `absent` left out
Dataset(h, c, absent) ==
    [k \in AllVars \ absent |-> IF k \in DOMAIN h THEN h[k] ELSE c[k]]

\* the wall clock read by _extract_date when JULD is absent, in days after
\* 1950-01-01
NowDays == {28000, 28001}

InitProfile ==
    /\ \/ \E n \in 0..MaxLen :
            \E pr \in [1..n -> Press], te \in [1..n -> Temps], sa \in [1..n -> Sals] :
               ds = Dataset(ScenarioHeader, Column(pr, te, sa), {})
       \/ \E h \in Headers, c \in FixedColumns :
            \E ab \in {a \in SUBSET AllVars : Cardinality(a) <= 2} :
               ds = Dataset(h, c, ab)
    /\ profile_data = None
    /\ p_pc = "open"
    /\ RegionIdle /\ IngestIdle /\ RagIdle

\* lines 28-42; an exception is caught at line 58 and None is returned
P_Extract ==
    /\ p_pc = "open"
    /\ IF ExtractRaises(ds)
       THEN /\ profile_data' = None
            /\ p_pc' = "failed"
       ELSE /\ \E now \in NowDays : profile_data' = RawProfile(ds, now)
            /\ p_pc' = "extracted"
    /\ UNCHANGED << ds, regionVars, ingestVars, ragVars >>

\* lines 45-46; the calculator catches what it raises, so nothing reaches
\* line 58
P_Derive ==
    /\ p_pc = "extracted"
    /\ IF DerivePropagates(profile_data)
       THEN /\ profile_data' = None
            /\ p_pc' = "failed"
       ELSE /\ profile_data' =
                  Update(profile_data, calculate_derived_parameters(profile_data))
            /\ p_pc' = "derived"
    /\ UNCHANGED << ds, regionVars, ingestVars, ragVars >>

\* lines 49-51
P_Classify ==
    /\ p_pc = "derived"
    /\ profile_data' =
          Update(profile_data,
                 [k \in {"ocean_region"} |->
                    Str(determine_ocean_region(profile_data["latitude"],
                                               profile_data["longitude"]))])
    /\ p_pc' = "classified"
    /\ UNCHANGED << ds, regionVars, ingestVars, ragVars >>

\* lines 54-56
P_Clean ==
    /\ p_pc = "classified"
    /\ profile_data' = clean_profile_data(profile_data)
    /\ p_pc' = "returned"
    /\ UNCHANGED << ds, regionVars, ingestVars, ragVars >>

NextProfile == P_Extract \/ P_Derive \/ P_Classify \/ P_Clean

SpecProfile == InitProfile /\ [][NextProfile]_vars

(***************************************************************************)
(* Claims about the sanitizer                                              *)
(***************************************************************************)
\* the profile just before the sanitizer ran: the extraction, the derived
\* fields and the region label of the file at hand
BeforeClean(now) ==
    LET raw == RawProfile(ds, now)
        derived == Update(raw, calculate_derived_parameters(raw))
    IN  Update(derived,
               [k \in {"ocean_region"} |->
                  Str(determine_ocean_region(raw["latitude"], raw["longitude"]))])

HoldsNaN(x) ==
    IF x.t = "list" THEN \E i \in 1..Len(x.v) : IsNaN(x.v[i]) ELSE IsNaN(x)

\* C8: after the sanitizer ran, no field holds a NaN: every NaN element of a
\* sequence field and every NaN scalar is None, and every element or scalar
\* that was not NaN is as it was before.
C8_NoNaNAfterClean ==
    p_pc = "returned" =>
        /\ \A key \in DOMAIN profile_data : ~HoldsNaN(profile_data[key])
        /\ \E now \in NowDays :
              LET before == BeforeClean(now) IN
              /\ DOMAIN profile_data = DOMAIN before
              /\ \A key \in DOMAIN before :
                    LET b == before[key]
                        a == profile_data[key]
                    IN  IF b.t = "list"
                        THEN /\ a.t = "list" /\ Len(a.v) = Len(b.v)
                             /\ \A i \in 1..Len(b.v) :
                                   /\ IsNaN(b.v[i]) => a.v[i] = None
                                   /\ ~IsNaN(b.v[i]) => a.v[i] = b.v[i]
                        ELSE /\ IsNaN(b) => a = None
                             /\ ~IsNaN(b) => a = b

\* a cleaned profile that had a NaN scalar (the latitude), a NaN and a
\* number in a raw sequence, and the five derived fields
C8_Witness ==
    /\ p_pc = "returned"
    /\ IsNaN(ds["LATITUDE"]) /\ profile_data["latitude"] = None
    /\ \E i, j \in 1..Len(ds["TEMP"].v) :
          /\ IsNaN(ds["TEMP"].v[i]) /\ profile_data["temperature"].v[i] = None
          /\ profile_data["temperature"].v[j] = Num(283)
    /\ Has(profile_data, "absolute_salinity")

\* C9: the sanitizer is idempotent: on every profile the pipeline holds,
\* before or after cleaning, sanitizing twice gives what sanitizing once
\* gives, and a cleaned profile is not changed by sanitizing it again.
C9_CleanIdempotent ==
    /\ p_pc \in {"extracted", "derived", "classified", "returned"} =>
          clean_profile_data(clean_profile_data(profile_data))
             = clean_profile_data(profile_data)
    /\ p_pc = "returned" => clean_profile_data(profile_data) = profile_data

\* a cleaned profile holding absence markers in a sequence and in a scalar
C9_Witness ==
    /\ p_pc = "returned"
    /\ profile_data["longitude"] = None
    /\ \E i, j \in 1..Len(profile_data["salinity"].v) :
          i # j /\ profile_data["salinity"].v[i] = None
                /\ profile_data["salinity"].v[j] = None

(***************************************************************************)
(* Claims about the calculator                                             *)
(***************************************************************************)
\* the number of levels of the file at which temperature, salinity and
\* pressure are all present
JointlyValid ==
    Cardinality({i \in 1..Len(ds["TEMP"].v) :
                    /\ ds["TEMP"].v[i].t = "num"
                    /\ ds["PSAL"].v[i].t = "num"
                    /\ ds["PRES"].v[i].t = "num"})

DerivedSequences ==
    {"absolute_salinity", "conservative_temperature", "potential_density"}
DerivedScalars == {"max_depth", "mixed_layer_depth"}
RawKeys ==
    {"platform_number", "cycle_number", "latitude", "longitude",
     "measurement_date", "pressure_levels", "temperature", "salinity",
     "temp_qc", "psal_qc"}

\* C10: with fewer than 3 jointly valid levels the calculator adds exactly
\* max_depth = 0 and mixed_layer_depth = 0 and none of the three derived
\* sequences; with 3 or more it adds all five derived fields.
C10_FallbackBelowThree ==
    p_pc = "derived" =>
        IF JointlyValid < 3
        THEN /\ DOMAIN profile_data = RawKeys \cup DerivedScalars
             /\ profile_data["max_depth"] = Num(0)
             /\ profile_data["mixed_layer_depth"] = Num(0)
        ELSE /\ DOMAIN profile_data = RawKeys \cup DerivedScalars \cup DerivedSequences
             /\ \A k \in DerivedSequences : profile_data[k].t = "list"
             /\ \A k \in DerivedScalars : profile_data[k].t = "num"

\* both sides of the boundary: a file with exactly 2 jointly valid levels out
\* of 4 has the fallback
C10_Witness ==
    /\ p_pc = "derived"
    /\ JointlyValid = 2 /\ Len(ds["TEMP"].v) > 2
    /\ ~Has(profile_data, "absolute_salinity")
    /\ profile_data["max_depth"] = Num(0)

\* a file with exactly 3 jointly valid levels has the five derived fields
C10_WitnessThree ==
    /\ p_pc = "derived"
    /\ JointlyValid = 3
    /\ Has(profile_data, "absolute_salinity")
    /\ Len(profile_data["absolute_salinity"].v) = 3

\* the levels of the file at which temperature, salinity and pressure are
\* all numbers, and the k-th of them in file order
ValidLevels ==
    {i \in 1..Len(ds["TEMP"].v) :
        /\ ds["TEMP"].v[i].t = "num"
        /\ ds["PSAL"].v[i].t = "num"
        /\ ds["PRES"].v[i].t = "num"}
NthValid(k) ==
    CHOOSE i \in ValidLevels : Cardinality({j \in ValidLevels : j < i}) = k - 1
ValidOf(var) == [k \in 1..Cardinality(ValidLevels) |-> ds[var].v[NthValid(k)].v]

\* the calculator ran on the file at hand and did not fall back
NotFallback == p_pc = "derived" /\ Has(profile_data, "absolute_salinity")

\* C11: level i is kept exactly when temperature[i], salinity[i] and
\* pressure[i] are all present; the same levels are kept of all three arrays,
\* so the filtered temperature, salinity and pressure and the derived
\* absolute salinity, conservative temperature and potential density all
\* have one length, the number of jointly valid levels, and the k-th derived
\* element is computed from the k-th jointly valid level of each array.
C11_MaskLengths ==
    p_pc \in {"extracted", "derived"} =>
        LET n == Cardinality(ValidLevels)
            temp == ds["TEMP"].v
            sal == ds["PSAL"].v
            pres == ds["PRES"].v
            mask == ValidMask(temp, sal, pres)
        IN  /\ (\A var \in {"TEMP", "PSAL", "PRES"} :
                   \A i \in 1..Len(ds[var].v) : ds[var].v[i].t \in {"num", "nan"}) =>
                 /\ \A i \in 1..Len(temp) : mask[i] <=> i \in ValidLevels
                 /\ \A var \in {"TEMP", "PSAL", "PRES"} :
                       /\ Len(Compress(ds[var].v, mask)) = n
                       /\ \A k \in 1..n :
                             Compress(ds[var].v, mask)[k] = ds[var].v[NthValid(k)]
            /\ NotFallback =>
                 /\ \A key \in DerivedSequences : Len(profile_data[key].v) = n
                 /\ \A k \in 1..n :
                       profile_data["absolute_salinity"].v[k] =
                          gsw("SA", <<ValidOf("PSAL")[k], ValidOf("PRES")[k]>>,
                              ds["LONGITUDE"], ds["LATITUDE"])

\* a file of 5 levels, 3 of them jointly valid, one lacking its pressure and
\* another its temperature: the derived sequences have 3 elements
C11_Witness ==
    /\ NotFallback
    /\ Len(ds["TEMP"].v) = 5 /\ Cardinality(ValidLevels) = 3
    /\ \E i, j \in 1..5 : i # j /\ IsNaN(ds["PRES"].v[i]) /\ IsNaN(ds["TEMP"].v[j])
    /\ Len(profile_data["potential_density"].v) = 3

C13_MldDeepest ==
    NotFallback =>
        LET T == ValidOf("TEMP")
            P == ValidOf("PRES")
        IN  (\A k \in 1..Len(T) : T[k] - T[1] <= 2 /\ T[1] - T[k] <= 2)
              => \A k \in 1..Len(P) : profile_data["mixed_layer_depth"].v >= P[k]

\* C15: when the calculator does not fall back, max_depth is the maximum
\* pressure over the jointly valid levels: it is the pressure of a jointly
\* valid level, no jointly valid level is deeper, and the pressure of a level
\* that lacks its temperature or salinity plays no part.
C15_MaxDepthValidOnly ==
    NotFallback =>
        /\ \E i \in ValidLevels : profile_data["max_depth"] = ds["PRES"].v[i]
        /\ \A i \in ValidLevels : profile_data["max_depth"].v >= ds["PRES"].v[i].v

\* a file whose deepest pressure stands at a level without temperature:
\* max_depth is the deepest jointly valid pressure, which is less
C15_Witness ==
    /\ NotFallback
    /\ \E i \in 1..Len(ds["PRES"].v) :
          /\ IsNaN(ds["TEMP"].v[i]) /\ ds["PRES"].v[i].t = "num"
          /\ ds["PRES"].v[i].v > profile_data["max_depth"].v
          /\ \A j \in ValidLevels : ds["PRES"].v[j].v < ds["PRES"].v[i].v

\* C26: the mixed-layer depth of a profile is at most its max_depth; when
\* the calculator does not fall back both are pressures of jointly valid
\* levels of the file, and in the fallback both are 0.
C26_MldAtMostMaxDepth ==
    p_pc = "derived" =>
        /\ profile_data["mixed_layer_depth"].v <= profile_data["max_depth"].v
        /\ NotFallback =>
              /\ \E i \in ValidLevels :
                    profile_data["mixed_layer_depth"] = ds["PRES"].v[i]
              /\ \E i \in ValidLevels :
                    profile_data["max_depth"] = ds["PRES"].v[i]
        /\ ~NotFallback =>
              /\ profile_data["mixed_layer_depth"] = Num(0)
              /\ profile_data["max_depth"] = Num(0)

\* the scenario's profile: mixed-layer depth 20, below the first level and
\* above the max_depth 50
C26_Witness ==
    /\ NotFallback
    /\ ds["PRES"] = ScenarioColumn["PRES"] /\ ds["TEMP"] = ScenarioColumn["TEMP"]
    /\ profile_data["mixed_layer_depth"] = Num(200)
    /\ profile_data["max_depth"] = Num(500)

\* C17: a file without PLATFORM_NUMBER is extracted with the platform
\* identifier "UNKNOWN", a file without CYCLE_NUMBER with the cycle number 0,
\* and an extraction fails only for another reason: a required variable is
\* absent, or the cycle number it holds is not a number.
C17_OptionalDefaults ==
    /\ p_pc \in {"extracted", "derived", "classified", "returned"} =>
          /\ "PLATFORM_NUMBER" \notin DOMAIN ds
                => profile_data["platform_number"] = Str("UNKNOWN")
          /\ "CYCLE_NUMBER" \notin DOMAIN ds
                => profile_data["cycle_number"] = Num(0)
    /\ p_pc = "failed" =>
          \/ \E v \in {"LATITUDE", "LONGITUDE", "PRES", "TEMP", "PSAL"} :
                v \notin DOMAIN ds
          \/ ("CYCLE_NUMBER" \in DOMAIN ds /\ IsNaN(ds["CYCLE_NUMBER"]))

\* a file lacking both optional variables was processed to the end
C17_Witness ==
    /\ p_pc = "returned"
    /\ "PLATFORM_NUMBER" \notin DOMAIN ds /\ "CYCLE_NUMBER" \notin DOMAIN ds
    /\ profile_data["platform_number"] = Str("UNKNOWN")
    /\ profile_data["cycle_number"] = Num(0)

(***************************************************************************)
(* SpecMld: the two ways to a mixed-layer depth, on every column of at     *)
(* most MaxLen levels under the scenario's header:                         *)
(*   - _calculate_mld called directly on the valid temperatures and        *)
(*     pressures of the column (any number of them, 0 and 1 included);     *)
(*   - _calculate_derived_parameters called on the extracted profile.      *)
(* ds holds the file, profile_data what the call returned.                 *)
(***************************************************************************)
InitMld ==
    /\ \E n \in 0..MaxLen :
         \E pr \in [1..n -> Press], te \in [1..n -> Temps], sa \in [1..n -> Sals] :
            ds = Dataset(ScenarioHeader, Column(pr, te, sa), {})
    /\ profile_data = None
    /\ p_pc = "call"
    /\ RegionIdle /\ IngestIdle /\ RagIdle

\* _calculate_mld(temp_clean, pres_clean), as line 104 calls it but without
\* the check of line 89 before it
M_CalculateMld ==
    /\ p_pc = "call"
    /\ LET temp == ds["TEMP"].v
           sal == ds["PSAL"].v
           pres == ds["PRES"].v
           valid_mask == ValidMask(temp, sal, pres)
       IN  profile_data' = Num(calculate_mld(Compress(temp, valid_mask),
                                             Compress(pres, valid_mask)))
    /\ p_pc' = "mld_returned"
    /\ UNCHANGED << ds, regionVars, ingestVars, ragVars >>

\* _calculate_derived_parameters(profile_data)
M_CalculateDerived ==
    /\ p_pc = "call"
    /\ \E now \in NowDays :
          profile_data' = calculate_derived_parameters(RawProfile(ds, now))
    /\ p_pc' = "derived_returned"
    /\ UNCHANGED << ds, regionVars, ingestVars, ragVars >>

NextMld == M_CalculateMld \/ M_CalculateDerived

SpecMld == InitMld /\ [][NextMld]_vars

\* C14: with fewer than 2 valid samples the mixed-layer depth is 0: from
\* _calculate_mld called on the valid sequences (of length 0 or 1), and from
\* the calculator, which then returns no derived sequence either.
C14_MldZeroBelowTwo ==
    Cardinality(ValidLevels) < 2 =>
        /\ p_pc = "mld_returned" => profile_data = Num(0)
        /\ p_pc = "derived_returned" =>
              /\ profile_data["mixed_layer_depth"] = Num(0)
              /\ DOMAIN profile_data = DerivedScalars

\* _calculate_mld was called on the one valid sample of a file of 3 levels,
\* whose pressure is not 0
C14_Witness ==
    /\ p_pc = "mld_returned" /\ profile_data = Num(0)
    /\ Len(ds["TEMP"].v) = 3 /\ Cardinality(ValidLevels) = 1
    /\ \A i \in ValidLevels : ds["PRES"].v[i].v > 0

(***************************************************************************)
(* ArgoVectorDatabase.add_profile                                          *)
(***************************************************************************)
\* float(None) raises at lines 70-75 when a cleaned coordinate or depth is
\* None; the exception is caught at line 82 and False is returned
AddProfileRaises(pd) ==
    \E k \in {"latitude", "longitude", "max_depth", "mixed_layer_depth"} :
        pd[k] = None

\* the document of lines 64-78; its id is a fresh uuid4
Document(pd, coll) ==
    [k \in {"profile_id", "platform_number", "latitude", "longitude", "date",
            "ocean_region", "max_depth", "mixed_layer_depth"} |->
        CASE k = "profile_id" -> Num(Len(coll) + 1)
          [] k = "date" -> pd["measurement_date"]
          [] OTHER -> pd[k]]

(***************************************************************************)
(* DataIngestionPipeline._save_to_database                                 *)
(***************************************************************************)
\* the columns of ArgoProfile declared nullable=False (models.py)
NotNullColumns ==
    {"platform_number", "cycle_number", "latitude", "longitude",
     "measurement_date", "pressure_levels", "temperature", "salinity"}

\* the columns declared ARRAY(Float) hold floats and NULLs only
FloatArrayColumns == {"pressure_levels", "temperature", "salinity"}
ArrayTypeMismatch(pd) ==
    \E k \in FloatArrayColumns :
        \E i \in 1..Len(pd[k].v) : pd[k].v[i].t \notin {"num", "nan", "none"}

\* the commit of line 113 fails on a NULL in a NOT NULL column and on
\* character data in an ARRAY(Float) column
SaveRaises(pd) ==
    \/ \E k \in NotNullColumns : pd[k] = None
    \/ ArrayTypeMismatch(pd)

RowIds(rows) == {rows[i]["profile_id"].v : i \in 1..Len(rows)}

\* the row of lines 94-110; profile_id defaults to a fresh uuid4, and the
\* keyword metadata does not name the column profile_metadata
Row(pd, rows) ==
    [k \in NotNullColumns \cup {"profile_id", "temp_qc", "psal_qc",
                                "mixed_layer_depth", "max_depth",
                                "ocean_region", "data_source"} |->
        CASE k = "profile_id" ->
                Num(1 + (CHOOSE m \in RowIds(rows) \cup {0} :
                            \A n \in RowIds(rows) : n <= m))
          [] k = "data_source" -> Str("ARGO")
          [] OTHER -> pd[k]]

(***************************************************************************)
(* DataIngestionPipeline.cleanup_duplicates                                *)
(***************************************************************************)
\* db is a sqlalchemy.orm.Session, which has no attribute func: evaluating
\* db.func at line 160 raises AttributeError
SessionHasFunc == FALSE

KeyOf(row) == << row["platform_number"], row["cycle_number"] >>

\* lines 157-166: the keys held by more than one row
DuplicateKeys(rows) ==
    {KeyOf(rows[i]) : i \in {i \in 1..Len(rows) :
                                \E j \in 1..Len(rows) :
                                    j # i /\ KeyOf(rows[j]) = KeyOf(rows[i])}}

\* lines 172-175: is row i the first of its key by measurement_date
\* descending?  (rows of one date keep their storage order)
FirstOfKey(rows, i) ==
    \A j \in 1..Len(rows) :
        (j # i /\ KeyOf(rows[j]) = KeyOf(rows[i])) =>
            \/ rows[j]["measurement_date"].v < rows[i]["measurement_date"].v
            \/ (rows[j]["measurement_date"].v = rows[i]["measurement_date"].v
                  /\ i < j)

RECURSIVE KeepFirstOfKey(_, _)
\* lines 170-180: the rows left when all but the first of each duplicate key
\* are deleted, from position i on
KeepFirstOfKey(rows, i) ==
    IF i > Len(rows) THEN << >>
    ELSE (IF KeyOf(rows[i]) \in DuplicateKeys(rows) /\ ~FirstOfKey(rows, i)
          THEN << >> ELSE << rows[i] >>) \o KeepFirstOfKey(rows, i + 1)

\* what one call does to the rows, what it returns, and whether its session
\* is closed (line 183) or left open (the except path, lines 188-190)
cleanup_duplicates(rows) ==
    IF SessionHasFunc
    THEN [rows |-> KeepFirstOfKey(rows, 1),
          removed |-> Len(rows) - Len(KeepFirstOfKey(rows, 1)),
          closed |-> TRUE]
    ELSE [rows |-> rows, removed |-> 0, closed |-> FALSE]

(***************************************************************************)
(* Spec: ingest_directory over one directory, then cleanup_duplicates.     *)
(* glob returns the paths 1..n of the directory's *.nc files; the file at  *)
(* path i was measured on day 27000 + i.  A file is one of                 *)
(*   "a"      a complete profile of platform 2900123, cycle 10             *)
(*   "b"      a complete profile of platform 2900456, cycle 10             *)
(*   "nolat"  a profile without the variable LATITUDE                      *)
(*   "nofield" a profile without another required variable: LONGITUDE,     *)
(*            PRES, TEMP or PSAL, by the path of the file                  *)
(*   "badtemp" a profile whose TEMP variable is stored with a character    *)
(*            type.                                                        *)
(* The directories are all those of at most MaxFiles files, and two of     *)
(* four files.  Each write to a store succeeds or fails as the store       *)
(* decides.                                                                *)
(***************************************************************************)
FileKinds == {"a", "b", "nolat", "nofield", "badtemp"}

\* the required variable a file of kind "nofield" lacks
FieldLacking(path) ==
    << "LONGITUDE", "PRES", "TEMP", "PSAL" >>[((path - 1) % 4) + 1]

FileOfKind(kind, path) ==
    Dataset([ScenarioHeader EXCEPT
                !["PLATFORM_NUMBER"] =
                    [t |-> "raw", v |-> IF kind = "b" THEN "2900456" ELSE "2900123"],
                !["JULD"] = Num(27000 + path)],
            IF kind = "badtemp" THEN MalformedColumn ELSE ScenarioColumn,
            CASE kind = "nolat" -> {"LATITUDE"}
              [] kind = "nofield" -> {FieldLacking(path)}
              [] OTHER -> {})

NoLog == [extract |-> << >>, vector |-> << >>, sql |-> << >>, result |-> << >>]

\* two directories of four files: that of the spec's scenario, three complete
\* files and one without latitude, and one whose files each lack another
\* required variable
FixedDirectories ==
    { << "a", "nolat", "a", "a" >>,
      << "nofield", "nofield", "nofield", "nofield" >> }

Init ==
    /\ \E kinds \in UNION {[1..n -> FileKinds] : n \in 0..MaxFiles}
                       \cup FixedDirectories :
         /\ netcdf_files = [i \in 1..Len(kinds) |-> FileOfKind(kinds[i], i)]
         /\ log = [i \in 1..Len(kinds) |-> NoLog]
    /\ file_idx = 0 /\ pc = "idle"
    /\ cur = None /\ vector_success = FALSE /\ sql_success = FALSE
    /\ result = FALSE
    /\ processed_count = 0 /\ error_count = 0 /\ processed_files = << >>
    /\ summary = None
    /\ collection = << >> /\ argo_profiles = << >>
    /\ open_sessions = 0 /\ last_removed = 0 /\ cleanup_calls = 0
    /\ stats = None /\ stats_calls = 0
    /\ RegionIdle /\ ProfileIdle /\ RagIdle

Logged(what, outcome) ==
    [log EXCEPT ![file_idx][what] = Append(@, outcome)]

\* ingest_directory, lines 28-36
D_Start ==
    /\ pc = "idle"
    /\ IF Len(netcdf_files) = 0
       THEN /\ summary' = [processed |-> 0, errors |-> 0, files |-> << >>]
            /\ pc' = "done"
       ELSE /\ summary' = summary
            /\ pc' = "loop"
    /\ processed_count' = 0 /\ error_count' = 0 /\ processed_files' = << >>
    /\ UNCHANGED << netcdf_files, file_idx, cur, vector_success, sql_success,
                    result, collection, argo_profiles, open_sessions, log,
                    last_removed, cleanup_calls, regionVars, profileVars, statsVars, ragVars >>

\* mutant: the loop also ends at the first file that fails
LoopExhausted_OrFailed(idx, n, r) == idx = n \/ (idx > 0 /\ ~r)

\* line 38: has the for loop run out of files?  (idx files taken out of n;
\* the result r of the last one plays no part)
LoopExhausted(idx, n, r) == idx = n

\* mutant: the next file is also begun while the relational write of the
\* file at hand is still to come
D_NextFile_Eager ==
    /\ \/ pc = "loop"
       \/ pc = "sql"
    /\ file_idx < Len(netcdf_files)
    /\ file_idx' = file_idx + 1
    /\ pc' = "extract"
    /\ UNCHANGED << netcdf_files, cur, vector_success, sql_success, result,
                    processed_count, error_count, processed_files, summary,
                    collection, argo_profiles, open_sessions, log,
                    last_removed, cleanup_calls, regionVars, profileVars, statsVars, ragVars >>

\* line 38: the next file_path; line 40 calls ingest_single_file
D_NextFile ==
    /\ pc = "loop" /\ ~LoopExhausted(file_idx, Len(netcdf_files), result)
    /\ file_idx' = file_idx + 1
    /\ pc' = "extract"
    /\ UNCHANGED << netcdf_files, cur, vector_success, sql_success, result,
                    processed_count, error_count, processed_files, summary,
                    collection, argo_profiles, open_sessions, log,
                    last_removed, cleanup_calls, regionVars, profileVars, statsVars, ragVars >>

\* mutant: the processor keeps the platform of the profile stored last
F_Extract_Carry ==
    /\ pc = "extract"
    /\ IF ExtractRaises(netcdf_files[file_idx])
       THEN /\ cur' = None
            /\ result' = FALSE
            /\ pc' = "tally"
       ELSE /\ \E now \in NowDays :
                 cur' = IF argo_profiles = << >>
                        THEN RawProfile(netcdf_files[file_idx], now)
                        ELSE [RawProfile(netcdf_files[file_idx], now) EXCEPT
                                 !["platform_number"] =
                                     argo_profiles[Len(argo_profiles)]["platform_number"]]
            /\ result' = result
            /\ pc' = "derive"
    /\ log' = Logged("extract", ~ExtractRaises(netcdf_files[file_idx]))
    /\ UNCHANGED << netcdf_files, file_idx, vector_success, sql_success,
                    processed_count, error_count, processed_files, summary,
                    collection, argo_profiles, open_sessions,
                    last_removed, cleanup_calls, regionVars, profileVars, statsVars, ragVars >>


\* process_argo_file, lines 28-42; on an exception it returns None (line 60)
\* and ingest_single_file returns False (lines 67-69)
F_Extract ==
    /\ pc = "extract"
    /\ IF ExtractRaises(netcdf_files[file_idx])
       THEN /\ cur' = None
            /\ result' = FALSE
            /\ pc' = "tally"
       ELSE /\ \E now \in NowDays : cur' = RawProfile(netcdf_files[file_idx], now)
            /\ result' = result
            /\ pc' = "derive"
    /\ log' = Logged("extract", ~ExtractRaises(netcdf_files[file_idx]))
    /\ UNCHANGED << netcdf_files, file_idx, vector_success, sql_success,
                    processed_count, error_count, processed_files, summary,
                    collection, argo_profiles, open_sessions,
                    last_removed, cleanup_calls, regionVars, profileVars, statsVars, ragVars >>

\* process_argo_file, lines 45-46; the calculator catches what it raises, so
\* nothing reaches line 58
F_Derive ==
    /\ pc = "derive"
    /\ IF DerivePropagates(cur)
       THEN /\ cur' = None
            /\ result' = FALSE
            /\ pc' = "tally"
       ELSE /\ cur' = Update(cur, calculate_derived_parameters(cur))
            /\ result' = result
            /\ pc' = "classify"
    /\ UNCHANGED << netcdf_files, file_idx, vector_success, sql_success,
                    processed_count, error_count, processed_files, summary,
                    collection, argo_profiles, open_sessions, log,
                    last_removed, cleanup_calls, regionVars, profileVars, statsVars, ragVars >>

\* process_argo_file, lines 49-51
F_Classify ==
    /\ pc = "classify"
    /\ cur' = Update(cur, [k \in {"ocean_region"} |->
                             Str(determine_ocean_region(cur["latitude"],
                                                        cur["longitude"]))])
    /\ pc' = "clean"
    /\ UNCHANGED << netcdf_files, file_idx, vector_success, sql_success, result,
                    processed_count, error_count, processed_files, summary,
                    collection, argo_profiles, open_sessions, log,
                    last_removed, cleanup_calls, regionVars, profileVars, statsVars, ragVars >>

\* process_argo_file, lines 54-56
F_Clean ==
    /\ pc = "clean"
    /\ cur' = clean_profile_data(cur)
    /\ pc' = "vector"
    /\ UNCHANGED << netcdf_files, file_idx, vector_success, sql_success, result,
                    processed_count, error_count, processed_files, summary,
                    collection, argo_profiles, open_sessions, log,
                    last_removed, cleanup_calls, regionVars, profileVars, statsVars, ragVars >>

\* mutant: after a failed search-index write the relational write is skipped
F_AddProfile_ShortCircuit ==
    /\ pc = "vector"
    /\ \E ok \in IF AddProfileRaises(cur) THEN {FALSE} ELSE BOOLEAN :
         /\ vector_success' = ok
         /\ collection' = IF ok THEN Append(collection, Document(cur, collection))
                          ELSE collection
         /\ log' = Logged("vector", ok)
    /\ pc' = IF vector_success' THEN "sql" ELSE "decide"
    /\ UNCHANGED << netcdf_files, file_idx, cur, sql_success, result,
                    processed_count, error_count, processed_files, summary,
                    argo_profiles, open_sessions,
                    last_removed, cleanup_calls, regionVars, profileVars, statsVars, ragVars >>


\* ingest_single_file line 72: vector_db.add_profile(profile_data)
F_AddProfile ==
    /\ pc = "vector"
    /\ \E ok \in IF AddProfileRaises(cur) THEN {FALSE} ELSE BOOLEAN :
         /\ vector_success' = ok
         /\ collection' = IF ok THEN Append(collection, Document(cur, collection))
                          ELSE collection
         /\ log' = Logged("vector", ok)
    /\ pc' = "sql"
    /\ UNCHANGED << netcdf_files, file_idx, cur, sql_success, result,
                    processed_count, error_count, processed_files, summary,
                    argo_profiles, open_sessions,
                    last_removed, cleanup_calls, regionVars, profileVars, statsVars, ragVars >>

\* mutant: a profile whose (platform, cycle) is stored replaces the stored one
F_SaveToDatabase_Upsert ==
    /\ pc = "sql"
    /\ \E ok \in IF SaveRaises(cur) THEN {FALSE} ELSE BOOLEAN :
         /\ sql_success' = ok
         /\ argo_profiles' =
               IF ~ok THEN argo_profiles
               ELSE IF \E j \in 1..Len(argo_profiles) :
                          KeyOf(argo_profiles[j]) = KeyOf(cur)
               THEN [j \in 1..Len(argo_profiles) |->
                        IF KeyOf(argo_profiles[j]) = KeyOf(cur)
                        THEN Row(cur, argo_profiles) ELSE argo_profiles[j]]
               ELSE Append(argo_profiles, Row(cur, argo_profiles))
         /\ open_sessions' = IF ok THEN open_sessions ELSE open_sessions + 1
         /\ log' = Logged("sql", ok)
    /\ pc' = "decide"
    /\ UNCHANGED << netcdf_files, file_idx, cur, vector_success, result,
                    processed_count, error_count, processed_files, summary,
                    collection, last_removed, cleanup_calls,
                    regionVars, profileVars, statsVars, ragVars >>


\* ingest_single_file line 75: _save_to_database(profile_data).  The session
\* opened at line 91 is closed at line 114, which a failure never reaches.
F_SaveToDatabase ==
    /\ pc = "sql"
    /\ \E ok \in IF SaveRaises(cur) THEN {FALSE} ELSE BOOLEAN :
         /\ sql_success' = ok
         /\ argo_profiles' = IF ok THEN Append(argo_profiles, Row(cur, argo_profiles))
                             ELSE argo_profiles
         /\ open_sessions' = IF ok THEN open_sessions ELSE open_sessions + 1
         /\ log' = Logged("sql", ok)
    /\ pc' = "decide"
    /\ UNCHANGED << netcdf_files, file_idx, cur, vector_success, result,
                    processed_count, error_count, processed_files, summary,
                    collection, last_removed, cleanup_calls,
                    regionVars, profileVars, statsVars, ragVars >>

\* mutant: a file counts as ingested when either write succeeded
BothSucceeded_Either(v, q) == v \/ q

\* mutant: only the search-index write decides
BothSucceeded_VectorOnly(v, q) == v

\* ingest_single_file line 77: vector_success and sql_success
BothSucceeded(v, q) == v /\ q

\* mutant: a partial success is compensated, the one write that succeeded
\* is taken back
F_Decide_Rollback ==
    /\ pc = "decide"
    /\ result' = (vector_success /\ sql_success)
    /\ collection' = IF vector_success /\ ~sql_success
                     THEN SubSeq(collection, 1, Len(collection) - 1)
                     ELSE collection
    /\ argo_profiles' = IF sql_success /\ ~vector_success
                        THEN SubSeq(argo_profiles, 1, Len(argo_profiles) - 1)
                        ELSE argo_profiles
    /\ pc' = "tally"
    /\ UNCHANGED << netcdf_files, file_idx, cur, vector_success, sql_success,
                    processed_count, error_count, processed_files, summary,
                    open_sessions, log,
                    last_removed, cleanup_calls, regionVars, profileVars, statsVars, ragVars >>

\* ingest_single_file, lines 77-82
F_Decide ==
    /\ pc = "decide"
    /\ result' = BothSucceeded(vector_success, sql_success)
    /\ pc' = "tally"
    /\ UNCHANGED << netcdf_files, file_idx, cur, vector_success, sql_success,
                    processed_count, error_count, processed_files, summary,
                    collection, argo_profiles, open_sessions, log,
                    last_removed, cleanup_calls, regionVars, profileVars, statsVars, ragVars >>

\* mutant: a file that failed is not counted
D_Tally_SkipFailed ==
    /\ pc = "tally"
    /\ IF result
       THEN /\ processed_count' = processed_count + 1
            /\ processed_files' = Append(processed_files, file_idx)
       ELSE UNCHANGED << processed_count, processed_files >>
    /\ error_count' = error_count
    /\ log' = Logged("result", result)
    /\ pc' = "loop"
    /\ UNCHANGED << netcdf_files, file_idx, cur, vector_success, sql_success,
                    result, summary, collection, argo_profiles, open_sessions,
                    last_removed, cleanup_calls, regionVars, profileVars, statsVars, ragVars >>

\* mutant: a file that failed is counted and taken once more
D_Tally_Retry ==
    /\ pc = "tally"
    /\ IF result
       THEN /\ processed_count' = processed_count + 1
            /\ processed_files' = Append(processed_files, file_idx)
            /\ error_count' = error_count
            /\ file_idx' = file_idx
       ELSE /\ error_count' = error_count + 1
            /\ file_idx' = IF log[file_idx]["result"] = << >>
                            THEN file_idx - 1 ELSE file_idx
            /\ UNCHANGED << processed_count, processed_files >>
    /\ log' = Logged("result", result)
    /\ pc' = "loop"
    /\ UNCHANGED << netcdf_files, cur, vector_success, sql_success,
                    result, summary, collection, argo_profiles, open_sessions,
                    last_removed, cleanup_calls, regionVars, profileVars, statsVars, ragVars >>

\* mutant: the path of a failed file is listed too
D_Tally_AppendAlways ==
    /\ pc = "tally"
    /\ IF result
       THEN /\ processed_count' = processed_count + 1
            /\ processed_files' = Append(processed_files, file_idx)
            /\ error_count' = error_count
       ELSE /\ error_count' = error_count + 1
            /\ processed_files' = Append(processed_files, file_idx)
            /\ processed_count' = processed_count
    /\ log' = Logged("result", result)
    /\ pc' = "loop"
    /\ UNCHANGED << netcdf_files, file_idx, cur, vector_success, sql_success,
                    result, summary, collection, argo_profiles, open_sessions,
                    last_removed, cleanup_calls, regionVars, profileVars, statsVars, ragVars >>


\* ingest_directory, lines 40-45: the tally of the file's result
D_Tally ==
    /\ pc = "tally"
    /\ IF result
       THEN /\ processed_count' = processed_count + 1
            /\ processed_files' = Append(processed_files, file_idx)
            /\ error_count' = error_count
       ELSE /\ error_count' = error_count + 1
            /\ UNCHANGED << processed_count, processed_files >>
    /\ log' = Logged("result", result)
    /\ pc' = "loop"
    /\ UNCHANGED << netcdf_files, file_idx, cur, vector_success, sql_success,
                    result, summary, collection, argo_profiles, open_sessions,
                    last_removed, cleanup_calls, regionVars, profileVars, statsVars, ragVars >>

\* ingest_directory, lines 51-55
D_Return ==
    /\ pc = "loop" /\ LoopExhausted(file_idx, Len(netcdf_files), result)
    /\ summary' = [processed |-> processed_count, errors |-> error_count,
                   files |-> processed_files]
    /\ pc' = "done"
    /\ UNCHANGED << netcdf_files, file_idx, cur, vector_success, sql_success,
                    result, processed_count, error_count, processed_files,
                    collection, argo_profiles, open_sessions, log,
                    last_removed, cleanup_calls, regionVars, profileVars, statsVars, ragVars >>

\* mutant: the cleanup empties the search index as well
CleanupDuplicates_PurgeIndex ==
    /\ pc = "done"
    /\ cleanup_calls < MaxCleanups
    /\ LET r == cleanup_duplicates(argo_profiles) IN
         /\ argo_profiles' = r.rows
         /\ last_removed' = r.removed
         /\ open_sessions' = IF r.closed THEN open_sessions ELSE open_sessions + 1
    /\ cleanup_calls' = cleanup_calls + 1
    /\ collection' = << >>
    /\ UNCHANGED << netcdf_files, file_idx, pc, cur, vector_success, sql_success,
                    result, processed_count, error_count, processed_files,
                    summary, log, regionVars, profileVars, statsVars, ragVars >>


\* cleanup_duplicates, called after the batch
CleanupDuplicates ==
    /\ pc = "done"
    /\ cleanup_calls < MaxCleanups
    /\ LET r == cleanup_duplicates(argo_profiles) IN
         /\ argo_profiles' = r.rows
         /\ last_removed' = r.removed
         /\ open_sessions' = IF r.closed THEN open_sessions ELSE open_sessions + 1
    /\ cleanup_calls' = cleanup_calls + 1
    /\ UNCHANGED << netcdf_files, file_idx, pc, cur, vector_success, sql_success,
                    result, processed_count, error_count, processed_files,
                    summary, collection, log, regionVars, profileVars, statsVars, ragVars >>

\* lines 133-136: ocean_region -> number of rows
RegionalDistribution(rows) ==
    [r \in {rows[i]["ocean_region"] : i \in 1..Len(rows)} |->
        Cardinality({i \in 1..Len(rows) : rows[i]["ocean_region"] = r})]

\* what one call returns and whether its session is closed (line 138) or
\* left open (the except path, lines 147-149)
get_ingestion_stats(rows, coll) ==
    IF SessionHasFunc
    THEN [value |-> [total_profiles |-> Len(rows),
                     vector_db_profiles |-> Len(coll),
                     regional_distribution |-> RegionalDistribution(rows),
                     embedding_model |-> "all-MiniLM-L6-v2"],
          closed |-> TRUE]
    ELSE [value |-> [total_profiles |-> 0, vector_db_profiles |-> 0],
          closed |-> FALSE]

\* get_ingestion_stats, called after the batch
GetIngestionStats ==
    /\ pc = "done"
    /\ stats_calls < MaxStats
    /\ LET r == get_ingestion_stats(argo_profiles, collection) IN
         /\ stats' = r.value
         /\ open_sessions' = IF r.closed THEN open_sessions ELSE open_sessions + 1
    /\ stats_calls' = stats_calls + 1
    /\ UNCHANGED << netcdf_files, file_idx, pc, cur, vector_success, sql_success,
                    result, processed_count, error_count, processed_files,
                    summary, collection, argo_profiles, log, last_removed,
                    cleanup_calls, regionVars, profileVars, ragVars >>

Next ==
    \/ D_Start \/ D_NextFile \/ F_Extract \/ F_Derive \/ F_Classify \/ F_Clean
    \/ F_AddProfile \/ F_SaveToDatabase \/ F_Decide \/ D_Tally \/ D_Return
    \/ CleanupDuplicates \/ GetIngestionStats

Spec == Init /\ [][Next]_vars

(***************************************************************************)
(* Claims about the ingestion                                              *)
(***************************************************************************)
NFiles == Len(netcdf_files)

\* what happened to file i, from the log of the attempts
Extracted(i) == log[i]["extract"] = << TRUE >>
VectorOk(i) == log[i]["vector"] = << TRUE >>
VectorFailed(i) == log[i]["vector"] = << FALSE >>
SqlOk(i) == log[i]["sql"] = << TRUE >>
SqlFailed(i) == log[i]["sql"] = << FALSE >>
Returned(i) == log[i]["result"] # << >>
Succeeded(i) == Extracted(i) /\ VectorOk(i) /\ SqlOk(i)

\* the date by which a stored document or row is that of the file at path i
DateOfFile(i) == [t |-> "ts", v |-> netcdf_files[i]["JULD"].v]
DocsOfFile(i) ==
    {j \in 1..Len(collection) : collection[j]["date"] = DateOfFile(i)}
RowsOfFile(i) ==
    {j \in 1..Len(argo_profiles) :
        argo_profiles[j]["measurement_date"] = DateOfFile(i)}

\* C1: ingest_directory returns processed = the number of files whose
\* extraction and both writes succeeded, errors = the number of the other
\* files, files = the paths of the succeeded files; with 3 complete files,
\* all written, and 1 file without latitude: processed 3, errors 1, 3 paths.
C1_Summary ==
    pc = "done" =>
        LET ok == {i \in 1..NFiles : Succeeded(i)} IN
        /\ summary["processed"] = Cardinality(ok)
        /\ summary["errors"] = NFiles - Cardinality(ok)
        /\ Len(summary["files"]) = Cardinality(ok)
        /\ {summary["files"][j] : j \in 1..Len(summary["files"])} = ok
        /\ (/\ NFiles = 4
            /\ Cardinality({i \in 1..NFiles : ~Has(netcdf_files[i], "LATITUDE")}) = 1
            /\ \A i \in 1..NFiles :
                  Has(netcdf_files[i], "LATITUDE") => VectorOk(i) /\ SqlOk(i))
           => /\ summary["processed"] = 3 /\ summary["errors"] = 1
              /\ Len(summary["files"]) = 3

\* the scenario: 4 files, the second without latitude, the others written
C1_Witness ==
    /\ pc = "done" /\ NFiles = 4
    /\ ~Has(netcdf_files[2], "LATITUDE")
    /\ \A i \in {1, 3, 4} : Succeeded(i)
    /\ summary = [processed |-> 3, errors |-> 1, files |-> <<1, 3, 4>>]

\* C2: ingest_single_file returns True exactly when the file was extracted
\* and both writes succeeded; otherwise it returns False, the file is
\* counted as an error, and the next file is taken.
C2_TrueIffBothWrites ==
    /\ pc = "tally" => (result <=> Succeeded(file_idx))
    /\ \A i \in 1..NFiles : Returned(i) => log[i]["result"] = << Succeeded(i) >>
    /\ pc \in {"loop", "done"} =>
          error_count = Cardinality({i \in 1..file_idx : ~Succeeded(i)})
    /\ \A i \in 1..NFiles :
          (Returned(i) /\ ~Succeeded(i) /\ i < NFiles /\ pc = "done")
             => Returned(i + 1)

\* a file whose search-index write succeeded and whose relational write
\* failed returned False, was counted, and the file after it was ingested
C2_Witness ==
    /\ pc = "done" /\ NFiles >= 2
    /\ VectorOk(1) /\ SqlFailed(1) /\ log[1]["result"] = << FALSE >>
    /\ Succeeded(2) /\ log[2]["result"] = << TRUE >>
    /\ error_count = 1 /\ processed_count = 1

\* what ingest_directory has returned: a summary of processed, errors and
\* files, after every file of the directory was attempted exactly once
ReturnedSummary ==
    /\ DOMAIN summary = {"processed", "errors", "files"}
    /\ summary["processed"] + summary["errors"] = NFiles
    /\ \A i \in 1..NFiles : Len(log[i]["extract"]) = 1 /\ Returned(i)

\* the steps the call has left at most: the steps of the file at hand, ten
\* for every file not yet taken, and the cleanups still allowed afterwards
StepsOfStage ==
    [idle |-> 2, loop |-> 1, extract |-> 9, derive |-> 8, classify |-> 7,
     clean |-> 6, vector |-> 5, sql |-> 4, decide |-> 3, tally |-> 2, done |-> 0]
StepsLeft ==
    10 * (NFiles - file_idx) + StepsOfStage[pc] + (MaxCleanups - cleanup_calls)
        + (MaxStats - stats_calls)

\* the call is at a line of the code from which it goes on
AtALine ==
    /\ pc \in DOMAIN StepsOfStage
    /\ pc \notin {"idle", "loop", "done"} => file_idx \in 1..NFiles
    /\ pc \in {"derive", "classify", "clean", "vector", "sql"} => cur # None

\* C3: ingest_directory never fails: whatever the outcome of each file
\* (no extraction, a failed search-index write, a failed relational write)
\* every step leaves the call at a line from which it goes on, with fewer
\* steps left, so it ends; and when it returns, it returns a summary of
\* processed, errors and files, every file of the directory having been
\* attempted, those after a failed file too.
C3_AlwaysSummary ==
    [][/\ AtALine'
       /\ StepsLeft' < StepsLeft /\ StepsLeft' >= 0
       /\ pc' = "done" => ReturnedSummary'
    ]_vars

\* the batch ended after a first file that could not be extracted, a second
\* whose two writes failed, and a third that was attempted all the same
C3_Witness ==
    /\ pc = "done" /\ NFiles >= 3
    /\ ~Extracted(1) /\ Returned(1)
    /\ VectorFailed(2) /\ SqlFailed(2)
    /\ Len(log[3]["extract"]) = 1
    /\ summary["errors"] >= 2

\* C4: when exactly one of the two writes of a file succeeds, the file is
\* reported as failed and the write that succeeded stays: its document (row)
\* is in its store once ingest_single_file has returned and when the batch
\* has ended, and the other store holds nothing of the file.
C4_NoRollback ==
    cleanup_calls = 0 =>
        \A i \in 1..NFiles :
            Returned(i) =>
                /\ (VectorOk(i) /\ SqlFailed(i)) =>
                      /\ log[i]["result"] = << FALSE >>
                      /\ Cardinality(DocsOfFile(i)) = 1
                      /\ RowsOfFile(i) = {}
                /\ (VectorFailed(i) /\ SqlOk(i)) =>
                      /\ log[i]["result"] = << FALSE >>
                      /\ Cardinality(RowsOfFile(i)) = 1
                      /\ DocsOfFile(i) = {}

\* the batch has ended; file 1 left a document and no row, file 2 a row and
\* no document, and both are in the stores
C4_Witness ==
    /\ pc = "done" /\ NFiles >= 2 /\ cleanup_calls = 0
    /\ VectorOk(1) /\ SqlFailed(1) /\ Cardinality(DocsOfFile(1)) = 1
    /\ VectorFailed(2) /\ SqlOk(2) /\ Cardinality(RowsOfFile(2)) = 1
    /\ summary["errors"] >= 2

\* C5: cleanup_duplicates deletes, for every (platform, cycle) held by more
\* than one profile, all profiles but the one of the latest date and returns
\* the number deleted: no key is left with two profiles, a profile is kept
\* exactly when no profile of its key is later, and for two profiles of
\* platform 2900123, cycle 10 it removes exactly 1 and keeps the later.
C5_CleanupKeepsLatest ==
    [][cleanup_calls' = cleanup_calls + 1 =>
         /\ DuplicateKeys(argo_profiles') = {}
         /\ \A i \in 1..Len(argo_profiles) :
               (\E j \in 1..Len(argo_profiles') : argo_profiles'[j] = argo_profiles[i])
                  <=> ~\E k \in 1..Len(argo_profiles) :
                         /\ KeyOf(argo_profiles[k]) = KeyOf(argo_profiles[i])
                         /\ argo_profiles[k]["measurement_date"].v
                               > argo_profiles[i]["measurement_date"].v
         /\ last_removed' = Len(argo_profiles) - Len(argo_profiles')
         /\ (/\ Len(argo_profiles) = 2
             /\ KeyOf(argo_profiles[1]) = << Str("2900123"), Num(10) >>
             /\ KeyOf(argo_profiles[2]) = << Str("2900123"), Num(10) >>)
            => last_removed' = 1 /\ Len(argo_profiles') = 1
    ]_vars

\* the files of the directory that lack a required variable
LacksRequired(i) ==
    \E v \in {"LATITUDE", "LONGITUDE", "PRES", "TEMP", "PSAL"} :
        v \notin DOMAIN netcdf_files[i]

\* C16: a file that lacks latitude, longitude, pressure, temperature or
\* salinity fails at extraction: no profile is produced, neither store is
\* written for it, now or later, its result is False, and it is counted among
\* the errors.
C16_MissingFieldFails ==
    /\ \A i \in 1..NFiles :
          LacksRequired(i) =>
              /\ log[i]["extract"] \in {<< >>, << FALSE >>}
              /\ log[i]["vector"] = << >> /\ log[i]["sql"] = << >>
              /\ DocsOfFile(i) = {} /\ RowsOfFile(i) = {}
              /\ log[i]["result"] \in {<< >>, << FALSE >>}
              /\ i \notin {processed_files[j] : j \in 1..Len(processed_files)}
              /\ (file_idx = i /\ pc = "tally") => cur = None /\ ~result
    /\ pc \in {"loop", "done"} =>
          error_count >= Cardinality({i \in 1..file_idx : LacksRequired(i)})

\* the batch has ended over four files without longitude, pressure,
\* temperature and salinity: four errors, both stores empty
C16_Witness ==
    /\ pc = "done" /\ NFiles = 4
    /\ \A i \in 1..4 : LacksRequired(i) /\ "LATITUDE" \in DOMAIN netcdf_files[i]
    /\ \A v \in {"LONGITUDE", "PRES", "TEMP", "PSAL"} :
          \E i \in 1..4 : v \notin DOMAIN netcdf_files[i]
    /\ summary = [processed |-> 0, errors |-> 4, files |-> << >>]
    /\ collection = << >> /\ argo_profiles = << >>

\* the files whose numeric conversion raises inside the calculator
Malformed(i) ==
    /\ ~LacksRequired(i)
    /\ \E k \in 1..Len(netcdf_files[i]["TEMP"].v) :
          netcdf_files[i]["TEMP"].v[k].t = "bytes"

\* C18: what the numeric conversion raises stays inside the calculator: the
\* profile of such a file gets max_depth = 0 and mixed_layer_depth = 0 and no
\* derived sequence, is then classified and sanitized, and both writes are
\* attempted; the files after it are taken as after any other file.
C18_CalculatorCatches ==
    \A i \in 1..NFiles :
        Malformed(i) =>
            /\ log[i]["extract"] \in {<< >>, << TRUE >>}
            /\ (file_idx = i /\ pc \in {"classify", "clean", "vector", "sql", "decide"}) =>
                  /\ cur # None
                  /\ cur["max_depth"] = Num(0) /\ cur["mixed_layer_depth"] = Num(0)
                  /\ DOMAIN cur \cap DerivedSequences = {}
            /\ (file_idx = i /\ pc \in {"clean", "vector", "sql", "decide"}) =>
                  cur["ocean_region"] = Str("Indian Ocean")
            /\ Returned(i) => Len(log[i]["vector"]) = 1 /\ Len(log[i]["sql"]) = 1
            /\ pc = "done" => Returned(i) /\ \A j \in 1..NFiles : Returned(j)

\* the batch has ended; the first file was malformed, its document is in the
\* search index with the fallback depths, and the second file was ingested
C18_Witness ==
    /\ pc = "done" /\ NFiles >= 2
    /\ Malformed(1) /\ VectorOk(1)
    /\ \E j \in DocsOfFile(1) :
          collection[j]["max_depth"] = Num(0)
             /\ collection[j]["mixed_layer_depth"] = Num(0)
    /\ Succeeded(2)

\* the stage that follows each stage of the batch
StageAfter ==
    [idle |-> {"loop", "done"}, loop |-> {"extract", "done"},
     extract |-> {"derive", "tally"}, derive |-> {"classify"},
     classify |-> {"clean"}, clean |-> {"vector"}, vector |-> {"sql"},
     sql |-> {"decide"}, decide |-> {"tally"}, tally |-> {"loop"},
     done |-> {"done"}]

\* file i is in progress: taken from the directory and not yet returned
InProgress(i) == i <= file_idx /\ ~Returned(i)

\* C19: the steps of a file come in the order extract, derive, classify,
\* sanitize, search-index write, relational write; a file is begun only when
\* every file before it has returned, both its writes attempted or its
\* extraction failed; a step records something for the file at hand only;
\* and at most one file is in progress.
C19_Sequential ==
    [][/\ pc' \in StageAfter[pc]
       /\ file_idx' # file_idx =>
             /\ file_idx' = file_idx + 1 /\ pc = "loop"
             /\ \A i \in 1..file_idx :
                   /\ Returned(i)
                   /\ \/ log[i]["extract"] = << FALSE >>
                      \/ (Len(log[i]["vector"]) = 1 /\ Len(log[i]["sql"]) = 1)
             /\ log[file_idx'] = NoLog
       /\ \A i \in 1..NFiles : i # file_idx => log'[i] = log[i]
       /\ Cardinality({i \in 1..NFiles : InProgress(i)'}) <= 1
       /\ \A i \in 1..NFiles : InProgress(i)' => i = file_idx'
    ]_vars

\* the third file is in progress, at its relational write, after the first
\* two have returned
C19_Witness ==
    /\ pc = "sql" /\ file_idx = 3
    /\ Returned(1) /\ Returned(2) /\ InProgress(3)
    /\ Len(log[3]["vector"]) = 1 /\ log[3]["sql"] = << >>

\* C20: nothing is tried twice: each file is extracted at most once, each of
\* its two writes is attempted at most once, it returns at most once, every
\* failed file is counted exactly once, and when the batch has ended every
\* file was attempted exactly once.
C20_NoRetry ==
    /\ \A i \in 1..NFiles :
          /\ Len(log[i]["extract"]) <= 1
          /\ Len(log[i]["vector"]) <= 1
          /\ Len(log[i]["sql"]) <= 1
          /\ Len(log[i]["result"]) <= 1
          /\ Cardinality(DocsOfFile(i)) <= 1
    /\ pc \in {"loop", "done"} =>
          /\ error_count =
                Cardinality({i \in 1..NFiles : log[i]["result"] = << FALSE >>})
          /\ processed_count + error_count = file_idx
    /\ pc = "done" =>
          \A i \in 1..NFiles : Len(log[i]["extract"]) = 1 /\ Len(log[i]["result"]) = 1

\* the batch has ended; the first file failed at its relational write, was
\* counted once and left alone while the second file was ingested
C20_Witness ==
    /\ pc = "done" /\ NFiles = 2
    /\ SqlFailed(1) /\ log[1]["result"] = << FALSE >>
    /\ Succeeded(2)
    /\ error_count = 1 /\ processed_count = 1

\* what process_argo_file makes of the file d read at time now, stage by
\* stage: a function of d and the clock alone
ExtractedOf(d, now) == RawProfile(d, now)
DerivedOf(d, now) ==
    Update(ExtractedOf(d, now), calculate_derived_parameters(ExtractedOf(d, now)))
ClassifiedOf(d, now) ==
    Update(DerivedOf(d, now),
           [k \in {"ocean_region"} |->
              Str(determine_ocean_region(d["LATITUDE"], d["LONGITUDE"]))])
CleanedOf(d, now) == clean_profile_data(ClassifiedOf(d, now))

C22_AppendOnly ==
    [][cleanup_calls' = cleanup_calls =>
         /\ Len(collection') \in {Len(collection), Len(collection) + 1}
         /\ SubSeq(collection', 1, Len(collection)) = collection
         /\ Len(argo_profiles') \in {Len(argo_profiles), Len(argo_profiles) + 1}
         /\ SubSeq(argo_profiles', 1, Len(argo_profiles)) = argo_profiles
         /\ Len(argo_profiles') > Len(argo_profiles) =>
               argo_profiles'[Len(argo_profiles')]["profile_id"].v
                  \notin RowIds(argo_profiles)
         /\ (pc = "decide" /\ result') =>
               /\ Cardinality(DocsOfFile(file_idx)) = 1
               /\ Cardinality(RowsOfFile(file_idx)) = 1
    ]_vars

\* two files of one platform and cycle were both ingested: two rows of one
\* key and two documents are stored
C22_Witness ==
    /\ pc = "done" /\ NFiles >= 2 /\ Succeeded(1) /\ Succeeded(2)
    /\ Len(argo_profiles) = 2 /\ Len(collection) = 2
    /\ KeyOf(argo_profiles[1]) = KeyOf(argo_profiles[2])
    /\ argo_profiles[1]["profile_id"] # argo_profiles[2]["profile_id"]

\* the keys held by the rows, as a set
KeysOf(rows) == {KeyOf(rows[i]) : i \in 1..Len(rows)}

\* C23: after cleanup_duplicates no two rows share (platform, cycle); every
\* row whose key was unique is still there; the count returned is the rows
\* before minus the distinct keys before; and a call that follows another
\* returns 0 and changes nothing.
C23_CleanupPostconditions ==
    [][cleanup_calls' = cleanup_calls + 1 =>
         /\ \A i, j \in 1..Len(argo_profiles') :
               i # j => KeyOf(argo_profiles'[i]) # KeyOf(argo_profiles'[j])
         /\ \A i \in 1..Len(argo_profiles) :
               KeyOf(argo_profiles[i]) \notin DuplicateKeys(argo_profiles)
                  => \E j \in 1..Len(argo_profiles') :
                        argo_profiles'[j] = argo_profiles[i]
         /\ last_removed' = Len(argo_profiles) - Cardinality(KeysOf(argo_profiles))
         /\ cleanup_calls >= 1 =>
               last_removed' = 0 /\ argo_profiles' = argo_profiles
    ]_vars

\* C27: the search-index write of a file comes first and the relational
\* write second; the relational write is attempted whatever the search-index
\* write returned; and a file whose search-index write failed and whose
\* relational write succeeded is reported as failed and has its row stored.
C27_WriteOrder ==
    \A i \in 1..NFiles :
        /\ log[i]["vector"] # << >> => Extracted(i)
        /\ log[i]["sql"] # << >> => Len(log[i]["vector"]) = 1
        /\ (file_idx = i /\ pc = "sql") =>
              Len(log[i]["vector"]) = 1 /\ log[i]["sql"] = << >>
        /\ (Extracted(i) /\ (Returned(i) \/ (file_idx = i /\ pc \in {"decide", "tally"})))
              => Len(log[i]["vector"]) = 1 /\ Len(log[i]["sql"]) = 1
        /\ (VectorFailed(i) /\ SqlOk(i) /\ Returned(i)) =>
              /\ log[i]["result"] = << FALSE >>
              /\ cleanup_calls = 0 => Cardinality(RowsOfFile(i)) = 1

\* the batch has ended; the only file failed at the search index, was
\* written to the relational store all the same, and is counted as an error
C27_Witness ==
    /\ pc = "done" /\ NFiles = 1
    /\ VectorFailed(1) /\ SqlOk(1)
    /\ summary = [processed |-> 0, errors |-> 1, files |-> << >>]
    /\ Len(argo_profiles) = 1 /\ collection = << >>

\* C28: the summary of a directory of N files has processed + errors = N and
\* as many paths as processed, no path twice, every path one of the
\* directory; an empty directory gives processed 0, errors 0, no path, and
\* both stores as they were, empty.
C28_SummaryShape ==
    pc = "done" =>
        /\ summary["processed"] + summary["errors"] = NFiles
        /\ Len(summary["files"]) = summary["processed"]
        /\ \A a, b \in 1..Len(summary["files"]) :
              a # b => summary["files"][a] # summary["files"][b]
        /\ \A a \in 1..Len(summary["files"]) : summary["files"][a] \in 1..NFiles
        /\ NFiles = 0 =>
              /\ summary = [processed |-> 0, errors |-> 0, files |-> << >>]
              /\ collection = << >> /\ argo_profiles = << >>

\* a directory of three files returned two processed paths and one error
C28_Witness ==
    /\ pc = "done" /\ NFiles = 3
    /\ summary["processed"] = 2 /\ summary["errors"] = 1
    /\ Len(summary["files"]) = 2

C30_SessionsClosed == open_sessions = 0

(***************************************************************************)
(* SpecRag: ArgoRAGSystem.process_query on one question.  A text is the    *)
(* sequence of its characters.  The language model is an external          *)
(* collaborator: it returns any text, here at most MaxWords words of a     *)
(* small vocabulary separated by single spaces, with or without white      *)
(* space around it, or it raises.                                          *)
(***************************************************************************)
LowerCase == << "a", "b", "c", "d", "e", "f", "g", "h", "i", "j", "k", "l", "m", "n", "o", "p", "q", "r", "s", "t", "u", "v", "w", "x", "y", "z" >>
UpperCase == << "A", "B", "C", "D", "E", "F", "G", "H", "I", "J", "K", "L", "M", "N", "O", "P", "Q", "R", "S", "T", "U", "V", "W", "X", "Y", "Z" >>

\* str.upper()
upper(text) ==
    [i \in 1..Len(text) |->
        IF \E k \in 1..Len(LowerCase) : LowerCase[k] = text[i]
        THEN UpperCase[CHOOSE k \in 1..Len(LowerCase) : LowerCase[k] = text[i]]
        ELSE text[i]]

\* sub in text
Contains(text, sub) ==
    \E i \in 1..(Len(text) - Len(sub) + 1) : SubSeq(text, i, i + Len(sub) - 1) = sub

\* text.startswith(prefix)
StartsWith(text, prefix) ==
    Len(text) >= Len(prefix) /\ SubSeq(text, 1, Len(prefix)) = prefix

RECURSIVE strip(_)
\* str.strip()
strip(text) ==
    IF text = << >> THEN text
    ELSE IF Head(text) = " " THEN strip(Tail(text))
    ELSE IF text[Len(text)] = " " THEN strip(SubSeq(text, 1, Len(text) - 1))
    ELSE text

\* line 132
dangerous_keywords ==
    { << "D", "R", "O", "P" >>,
      << "D", "E", "L", "E", "T", "E" >>,
      << "U", "P", "D", "A", "T", "E" >>,
      << "I", "N", "S", "E", "R", "T" >>,
      << "A", "L", "T", "E", "R" >>,
      << "C", "R", "E", "A", "T", "E" >> }
KwSelect == << "S", "E", "L", "E", "C", "T" >>
KwLimit == << "L", "I", "M", "I", "T" >>
LimitClause == << " ", "L", "I", "M", "I", "T", " ", "1", "0", "0", "0" >>

\* the words the language model writes
Vocabulary ==
    { << "s", "e", "l", "e", "c", "t" >>, << "S", "E", "L", "E", "C", "T" >>,
      << "d", "r", "o", "p" >>, << "D", "E", "L", "E", "T", "E" >>,
      << "U", "p", "d", "a", "t", "e" >>, << "i", "n", "s", "e", "r", "t" >>,
      << "A", "L", "T", "E", "R" >>, << "c", "r", "e", "a", "t", "e" >>,
      << "c", "r", "e", "a", "t", "e", "d", "_", "a", "t" >>,
      << "x" >>, << "L", "I", "M", "I", "T" >>, << "w", "i", "t", "h" >> }

RECURSIVE Join(_)
\* the words separated by single spaces
Join(words) ==
    IF words = << >> THEN << >>
    ELSE IF Len(words) = 1 THEN words[1]
    ELSE words[1] \o << " " >> \o Join(Tail(words))

\* mutant: the keywords are looked for in the query as written
ValidateRaises_CaseSensitive(query) ==
    \/ \E keyword \in dangerous_keywords : Contains(query, keyword)
    \/ ~StartsWith(strip(upper(query)), KwSelect)

\* _validate_sql_query, lines 132-147: does it raise ValueError?  (sqlparse
\* does not validate: parse accepts every text)
ValidateRaises(query) ==
    \/ \E keyword \in dangerous_keywords : Contains(upper(query), keyword)
    \/ ~StartsWith(strip(upper(query)), KwSelect)

\* _validate_sql_query, lines 149-153: what it returns
validate_sql_query(query) ==
    IF ~Contains(upper(query), KwLimit) THEN query \o LimitClause ELSE query

\* _generate_query_suggestions
Suggestions ==
    << "Try asking about temperature or salinity profiles",
       "Specify a location (e.g., 'near the equator', 'in Arabian Sea')",
       "Include a time period (e.g., 'in March 2023', 'last 6 months')",
       "Ask about specific ARGO float numbers",
       "Try comparing different regions or time periods" >>

\* lines 120-126: what process_query returns when anything raised
Failure(error) ==
    [error |-> error, suggestion |-> Suggestions, success |-> FALSE]

InitRag ==
    /\ user_question = "Show me salinity profiles near the equator"
    /\ sql_query = << >>
    /\ q_pc = "search"
    /\ executed = << >>
    /\ answer = None
    /\ RegionIdle /\ ProfileIdle /\ IngestIdle

\* lines 85-90: semantic_search catches what it raises and returns a result
Q_Search ==
    /\ q_pc = "search"
    /\ q_pc' = "generate"
    /\ UNCHANGED << user_question, sql_query, executed, answer,
                    regionVars, profileVars, ingestVars >>

\* lines 93-97: the language model writes the query, or raises
Q_Generate ==
    /\ q_pc = "generate"
    /\ \/ \E n \in 0..MaxWords :
            \E words \in [1..n -> Vocabulary], pad \in BOOLEAN :
               /\ sql_query' =
                     strip((IF pad THEN << " " >> ELSE << >>) \o Join(words)
                              \o (IF pad THEN << " " >> ELSE << >>))
               /\ q_pc' = "validate"
               /\ answer' = answer
       \/ /\ answer' = Failure("language model")
          /\ q_pc' = "returned"
          /\ sql_query' = sql_query
    /\ UNCHANGED << user_question, executed, regionVars, profileVars, ingestVars >>

\* line 100
Q_Validate ==
    /\ q_pc = "validate"
    /\ IF ValidateRaises(sql_query)
       THEN /\ answer' = Failure("ValueError")
            /\ q_pc' = "returned"
            /\ sql_query' = sql_query
       ELSE /\ sql_query' = validate_sql_query(sql_query)
            /\ q_pc' = "execute"
            /\ answer' = answer
    /\ UNCHANGED << user_question, executed, regionVars, profileVars, ingestVars >>

\* line 101: _execute_query hands the query to the SQL client and returns
\* its rows, or [] when the client raised (lines 159-161)
Q_Execute ==
    /\ q_pc = "execute"
    /\ executed' = Append(executed, sql_query)
    /\ \E results \in {"rows", "no rows"} : answer' = [results |-> results]
    /\ q_pc' = "respond"
    /\ UNCHANGED << user_question, sql_query, regionVars, profileVars, ingestVars >>

\* lines 104-118: the language model writes the response, or raises
Q_Respond ==
    /\ q_pc = "respond"
    /\ \/ answer' = [query |-> user_question, sql |-> sql_query,
                     results |-> answer["results"], response |-> "response",
                     success |-> TRUE]
       \/ answer' = Failure("language model")
    /\ q_pc' = "returned"
    /\ UNCHANGED << user_question, sql_query, executed,
                    regionVars, profileVars, ingestVars >>

NextRag == Q_Search \/ Q_Generate \/ Q_Validate \/ Q_Execute \/ Q_Respond

SpecRag == InitRag /\ [][NextRag]_vars

\* a query the validator is to let through: none of the six keywords in it,
\* in any case, and SELECT, in any case, at its start
Acceptable(query) ==
    /\ \A keyword \in dangerous_keywords :
          \A i \in 1..Len(query) :
             i + Len(keyword) - 1 <= Len(query)
                => upper(SubSeq(query, i, i + Len(keyword) - 1)) # keyword
    /\ Len(strip(query)) >= 6
    /\ upper(SubSeq(strip(query), 1, 6)) = KwSelect

\* C24: a query is handed to the SQL client only after the validator
\* accepted it: a query that contains DROP, DELETE, UPDATE, INSERT, ALTER or
\* CREATE, or that does not start with SELECT, is never executed, and
\* process_query then returns success = False with suggestions.
C24_ValidatedBeforeExecuted ==
    /\ \A j \in 1..Len(executed) : Acceptable(executed[j])
    /\ Len(executed) <= 1
    /\ q_pc \in {"execute", "respond"} => Acceptable(sql_query)
    /\ (q_pc \in {"execute", "respond", "returned"} /\ ~Acceptable(sql_query)) =>
          /\ q_pc = "returned"
          /\ executed = << >>
          /\ answer["success"] = FALSE
          /\ answer["suggestion"] = Suggestions /\ Len(Suggestions) > 0

\* the model wrote "select x drop": it starts with SELECT and holds a
\* keyword in lower case; it was not executed and the call returned a failure
C24_Witness ==
    /\ q_pc = "returned"
    /\ sql_query = << "s", "e", "l", "e", "c", "t", " ", "x", " ", "d", "r", "o", "p" >>
    /\ executed = << >>
    /\ answer = Failure("ValueError")

====
